---- MODULE Spec2Model ----
(***************************************************************************)
(* State-machine model of the AETHER evolution engine                      *)
(* (src/src/evolution_engine/evolver.py).                                  *)
(*                                                                         *)
(* Numbers.  The program computes with Python floats; the model computes   *)
(* with fixed-point integers.  A gene value is an integer number of the    *)
(* gene's own unit:                                                        *)
(*     min_profit_threshold  1e-3      max_gas_price       1               *)
(*     position_size         1e-2      slippage_tolerance  1e-3            *)
(*     stop_loss             1e-2      take_profit         1e-2            *)
(* Probabilities, rates, the uniform variation and the Gaussian draw are   *)
(* in permille (1/1000).  Fitness is in units of 1/FitnessScale.           *)
(*                                                                         *)
(* Randomness.  The program draws from the process-wide generators         *)
(* `random` and `numpy.random`.  Both are deterministic generators whose   *)
(* seed is unknown: the model keeps each generator's state (rng, np_rng),  *)
(* starts it at an arbitrary seed, and advances it by one per draw, in the *)
(* order in which the code draws.                                          *)
(***************************************************************************)
EXTENDS Integers, Sequences, FiniteSets, TLC

VARIABLES
    population_size,   \* self.population_size
    mutation_rate,     \* self.mutation_rate (permille)
    population,        \* self.population: sequence of organisms
    generation,        \* self.generation
    rng,               \* state of the `random` module's generator
    np_rng,            \* state of numpy.random's generator
    pc,                \* position of the caller / of evolve_generation
    i,                 \* evolve_generation: index of the next organism to evaluate
    new_population,    \* evolve_generation: local new_population
    error,             \* the exception the last call raised (NoError when it returned)
    best,              \* dict returned by the last get_best_strategy call
    entry,             \* population and generation at the entry of the current/last evolve_generation call
    sel,               \* evolve_generation: the last offspring iteration's locals:
                       \* both tournaments' candidates, parent1 and parent2
                       \* (indices into self.population) and crossover's result
    db,                \* the TradingStrategy rows added and committed so far
    loop,              \* position of run_evolution_engine ("none": the engine is
                       \* driven call by call, outside run_evolution_engine)
    switches,          \* number of times the event loop has run another task
                       \* since run_evolution_engine started
    inits,             \* number of initialize_population calls so far
    calls,             \* number of evolve_generation calls so far
    orchestrator,      \* position of run_orchestrator ("none": no Orchestrator
                       \* has been constructed)
    running,           \* Orchestrator.running
    tasks,             \* Orchestrator.tasks: component name -> its current task
    owner,             \* every asyncio task created so far, in creation order:
                       \* owner[t] is the component name task t was created for
    done,              \* the tasks t for which task.done() is true
    monitor,           \* position of the run_health_monitor coroutine
    stops              \* number of component tasks that have ended by themselves

vars == <<population_size, mutation_rate, population, generation, rng, np_rng,
          pc, i, new_population, error, best, entry, sel, inits, calls, db,
          loop, switches, orchestrator, running, tasks, owner, done, monitor,
          stops>>

\* the state of the task around the engine
caller == <<loop, switches>>

\* The Orchestrator's state, which no method of EvolutionEngine touches.
supervision == <<orchestrator, running, tasks, owner, done, monitor, stops>>

-----------------------------------------------------------------------------
(* Bounds of the model *)

MaxPop == 10        \* the largest population size constructed
MaxCalls == 2       \* evolve_generation is called at most MaxCalls times
MaxInits == 2       \* initialize_population is called at most MaxInits times
RngMod == 8         \* number of states of the `random` generator
MaxSaves == 1       \* save_evolved_strategy adds at most MaxSaves rows
MaxRunGen == 20     \* run_evolution_engine is followed up to generation MaxRunGen
MaxSwitches == 1    \* the event loop runs another task at most MaxSwitches times

(* Program constants *)

NoError == "none"
SampleError == "ValueError: Sample larger than population or is negative"
MaxError == "ValueError: max() arg is an empty sequence"
IndexError == "IndexError: list index out of range"
DatabaseError == "sqlalchemy.exc.SQLAlchemyError"

tournament_size == 5

\* The population sizes the engine is constructed with: a non-positive one,
\* one below the tournament size, the tournament size (below 10 members the
\* elite is empty), and the sizes from 10 up, which have an elite.
PopulationSizes == {0, tournament_size - 1, tournament_size} \cup (2 * tournament_size)..MaxPop

\* The mutation rates the engine is constructed with (permille): the default
\* 0.1, the rate 0.3, and 1.5, which is no probability.
MutationRates == {100, 300, 1500}

\* The configurations EvolutionEngine(population_size, mutation_rate) is
\* constructed with: every size at the default rate, and the tournament-size
\* population at the other rates.
Configurations ==
    (PopulationSizes \X {100}) \cup ({tournament_size} \X MutationRates)

\* a fitness f is held as the integer f * FitnessScale
FitnessScale == 10000

-----------------------------------------------------------------------------
(* The random sources *)

\* The `random` generator is modelled as a cycle of RngMod states, numbered
\* in the order the generator visits them; Draw(x), the number it returns in
\* state x (a value in 0..RngMod-1 standing for the float Draw(x)/RngMod in
\* [0, 1)), scrambles the state number.
RngNext(x) == (x + 1) % RngMod

\* the state k draws after state x
RngAdv(x, k) == (x + k) % RngMod

Draw(x) == ((x * (x + 1)) \div 2) % RngMod

\* random.random() < p, p in permille, for the draw made in state x
RandomBelow(x, p) == Draw(x) * 1000 < p * RngMod

\* random.uniform(a, b) in permille, a and b in permille
Uniform(x, a, b) == a + ((b - a) * Draw(x)) \div RngMod

\* the generator's _randbelow(n): an index in 0..n-1
RandBelow(x, n) == (Draw(x) * n) \div RngMod

\* np.random.normal(0, 0.1), in permille: the draws the numpy generator
\* cycles through.
NormalTable == <<-100, 100, -1100>>

Normal(x) == NormalTable[x]

NpNext(x) == (x % Len(NormalTable)) + 1

-----------------------------------------------------------------------------
(* Data model *)

Gene(name, value, min_value, max_value, rate) ==
    [name |-> name, value |-> value, min_value |-> min_value,
     max_value |-> max_value, mutation_rate |-> rate]

GeneDefaultMutationRate == 100

Organism(strategy_id, genes, gen) ==
    [strategy_id |-> strategy_id, genes |-> genes, fitness |-> 0, generation |-> gen]

Max(a, b) == IF a >= b THEN a ELSE b

Min(a, b) == IF a <= b THEN a ELSE b

\* max(lo, min(hi, v)): the clamp of initialize_population and mutate
Clamp(lo, hi, v) == Max(lo, Min(hi, v))

\* The base strategies initialize_population is called with: the one
\* run_evolution_engine passes, and one whose values lie outside the genes'
\* bounds (min_profit_threshold 0.2 > 0.1, max_gas_price 5 < 10).
DefaultBase ==
    [min_profit_threshold |-> 20, max_gas_price |-> 100, position_size |-> 10,
     slippage_tolerance |-> 5, stop_loss |-> 5, take_profit |-> 10]

OutOfRangeBase ==
    [min_profit_threshold |-> 200, max_gas_price |-> 5, position_size |-> 10,
     slippage_tolerance |-> 5, stop_loss |-> 5, take_profit |-> 10]

BaseStrategies == {DefaultBase, OutOfRangeBase}

\* _extract_gene_definitions: name, base value, min, max of the six genes
extract_gene_definitions(strategy) ==
    << [name |-> "min_profit_threshold", value |-> strategy.min_profit_threshold,
        min |-> 1, max |-> 100],
       [name |-> "max_gas_price", value |-> strategy.max_gas_price,
        min |-> 10, max |-> 500],
       [name |-> "position_size", value |-> strategy.position_size,
        min |-> 1, max |-> 50],
       [name |-> "slippage_tolerance", value |-> strategy.slippage_tolerance,
        min |-> 1, max |-> 20],
       [name |-> "stop_loss", value |-> strategy.stop_loss,
        min |-> 1, max |-> 20],
       [name |-> "take_profit", value |-> strategy.take_profit,
        min |-> 2, max |-> 50] >>

\* The seed schema: the gene definitions (names and bounds)
Schema == extract_gene_definitions(DefaultBase)

\* the number of genes of an organism
NumGenes == Len(Schema)

-----------------------------------------------------------------------------
(* initialize_population *)

\* value = gene_def['value'] * (1 + random.uniform(-0.2, 0.2)), clamped;
\* x is the generator state of this draw
InitGene(gene_def, x) ==
    Gene(gene_def.name,
         Clamp(gene_def.min, gene_def.max,
               (gene_def.value * (1000 + Uniform(x, -200, 200))) \div 1000),
         gene_def.min, gene_def.max, GeneDefaultMutationRate)

\* organism k (0-based) of the initial population, the generator being in
\* state x when the population loop starts
InitOrganism(defs, k, x, gen) ==
    Organism(<<"gen", gen, "org", k>>,
             [j \in 1..Len(defs) |->
                 InitGene(defs[j], RngAdv(x, k * Len(defs) + (j - 1)))],
             gen)

\* range(self.population_size) is empty for a size <= 0
initialize_population(base, size, x, gen) ==
    LET defs == extract_gene_definitions(base)
    IN  [k \in 1..Max(size, 0) |-> InitOrganism(defs, k - 1, x, gen)]

NoRecord == [fitness |-> 0, generation |-> -1, values |-> <<>>]

\* the locals of the offspring loop before its first iteration
NoSelection == [candidates |-> <<>>, parents |-> <<>>, child |-> <<>>]

\* No Orchestrator has been constructed: the engine is used on its own.
NoOrchestrator ==
    /\ orchestrator = "none"
    /\ running = FALSE
    /\ tasks = <<>>
    /\ owner = <<>>
    /\ done = {}
    /\ monitor = "none"
    /\ stops = 0

Init ==
    /\ \E c \in Configurations : population_size = c[1] /\ mutation_rate = c[2]
    /\ population = <<>>
    /\ generation = 0
    /\ rng \in 0..(RngMod - 1)
    /\ np_rng \in 1..Len(NormalTable)
    /\ pc = "new"
    /\ i = 0
    /\ new_population = <<>>
    /\ error = NoError
    /\ best = NoRecord
    /\ entry = [population |-> <<>>, generation |-> 0]
    /\ sel = NoSelection
    /\ db = <<>>
    /\ loop = "none"
    /\ switches = 0
    /\ inits = 0
    /\ calls = 0
    /\ NoOrchestrator

InitializePopulation ==
    /\ pc \in {"new", "idle"}
    /\ inits < MaxInits
    /\ \E base \in BaseStrategies :
          population' = initialize_population(base, population_size, rng, generation)
    /\ rng' = RngAdv(rng, Max(population_size, 0) * NumGenes)
    /\ pc' = "idle"
    /\ error' = NoError
    /\ inits' = inits + 1
    /\ UNCHANGED <<population_size, mutation_rate, generation, np_rng, i,
                   new_population, best, entry, sel, calls, db, caller, supervision>>

-----------------------------------------------------------------------------
(* evaluate_fitness *)

\* genes_dict.get(name, default) on {gene.name: gene.value for gene in genes}:
\* the value of the last gene of that name, the default when there is none
GenesDictGet(genes, name, default) ==
    LET hits == {j \in 1..Len(genes) : genes[j].name = name}
    IN  IF hits = {} THEN default
        ELSE genes[CHOOSE j \in hits : \A k \in hits : k <= j].value

\* gene.value <= gene.min_value * 1.1 or gene.value >= gene.max_value * 0.9
IsExtreme(gene) ==
    \/ gene.value * 10 <= gene.min_value * 11
    \/ gene.value * 10 >= gene.max_value * 9

\* the loop "fitness *= 0.8" over the genes from position j on
RECURSIVE Penalize(_, _, _)
Penalize(genes, j, fitness) ==
    IF j > Len(genes) THEN fitness
    ELSE Penalize(genes, j + 1,
                  IF IsExtreme(genes[j]) THEN (fitness * 4) \div 5 ELSE fitness)

\* market_factor = random.uniform(0.8, 1.2), drawn in generator state x
MarketFactor(x) == Uniform(x, 800, 1200)

\* profit_factor * risk_factor * efficiency_factor * market_factor with
\*   profit_factor     = min_profit_threshold * 100   = profit / 10
\*   risk_factor       = 1 / (stop_loss * 10)         = 10 / stop
\*   efficiency_factor = 1 / (max_gas_price / 100)    = 100 / gas
\*   market_factor     = market / 1000
\* in units of 1/FitnessScale, followed by the penalties
evaluate_fitness(organism, x) ==
    LET profit == GenesDictGet(organism.genes, "min_profit_threshold", 20)
        stop == GenesDictGet(organism.genes, "stop_loss", 5)
        gas == GenesDictGet(organism.genes, "max_gas_price", 100)
        market == MarketFactor(x)
    IN  Penalize(organism.genes, 1,
                 (profit * market * (FitnessScale \div 10)) \div (stop * gas))

-----------------------------------------------------------------------------
(* Ranking: self.population.sort(key=lambda x: x.fitness, reverse=True) *)

\* Faulty variant of InsertDesc: e goes in front of the members of equal
\* fitness, so equal members end in reverse order.
InsertDescUnstable(s, e) ==
    LET before == {j \in 1..Len(s) : s[j].fitness > e.fitness}
        n == Cardinality(before)
    IN  SubSeq(s, 1, n) \o <<e>> \o SubSeq(s, n + 1, Len(s))

\* e inserted into the descending sequence s behind every member whose
\* fitness is at least e's (the sort is stable)
InsertDesc(s, e) ==
    LET before == {j \in 1..Len(s) : s[j].fitness >= e.fitness}
        n == Cardinality(before)
    IN  SubSeq(s, 1, n) \o <<e>> \o SubSeq(s, n + 1, Len(s))

RECURSIVE SortFrom(_, _, _)
SortFrom(s, j, acc) ==
    IF j > Len(s) THEN acc ELSE SortFrom(s, j + 1, InsertDesc(acc, s[j]))

SortDesc(s) == SortFrom(s, 1, <<>>)

\* elite_size = int(self.population_size * 0.1)
elite_size(size) == size \div 10

\* Faulty variant of FillMore: the fill loop stops one member short.
FillMoreShort(new_pop, size) == Len(new_pop) < size - 1

\* Faulty variant of FillMore: the fill loop runs one iteration too many.
FillMoreOneOver(new_pop, size) == Len(new_pop) <= size

\* while len(new_population) < self.population_size
FillMore(new_pop, size) == Len(new_pop) < size

\* Faulty variant of Elite: the slice starts one member late and keeps the
\* runners-up instead of the top members.
EliteShifted(pop, size) == SubSeq(pop, 2, Min(elite_size(size) + 1, Len(pop)))

\* self.population[:elite_size]
Elite(pop, size) == SubSeq(pop, 1, Min(elite_size(size), Len(pop)))

-----------------------------------------------------------------------------
(* select_parents *)

\* random.sample(pool, k) for a pool of at most 21 members: k times, pick
\* index j = randbelow(n), take pool[j], move the last member into its place.
\* pool holds indices into the population; n is the live length of the pool.
RECURSIVE Sample(_, _, _, _, _)
Sample(pool, n, k, x, result) ==
    IF k = 0 THEN result
    ELSE LET j == RandBelow(x, n) + 1
         IN  Sample([pool EXCEPT ![j] = pool[n]], n - 1, k - 1, RngNext(x),
                    Append(result, pool[j]))

\* Faulty variant of FirstMax: among candidates of equal maximal fitness the
\* last one wins (a scan that replaces the winner on >=).
LastMax(pop, candidates) ==
    LET top == {j \in 1..Len(candidates) :
                   \A k \in 1..Len(candidates) :
                       pop[candidates[k]].fitness <= pop[candidates[j]].fitness}
    IN  candidates[CHOOSE j \in top : \A k \in top : j >= k]

\* max(candidates, key=lambda x: x.fitness): the first candidate of maximal
\* fitness; candidates is a sequence of indices into pop
FirstMax(pop, candidates) ==
    LET top == {j \in 1..Len(candidates) :
                   \A k \in 1..Len(candidates) :
                       pop[candidates[k]].fitness <= pop[candidates[j]].fitness}
    IN  candidates[CHOOSE j \in top : \A k \in top : j <= k]

\* candidates = random.sample(self.population, tournament_size), drawn from
\* generator state x: a sequence of indices into pop
Candidates(pop, x) ==
    Sample([k \in 1..Len(pop) |-> k], Len(pop), tournament_size, x, <<>>)

\* one tournament over pop, drawn from generator state x: the index of the winner
tournament(pop, x) == FirstMax(pop, Candidates(pop, x))

\* random.sample raises ValueError when the sample is larger than the population
SampleRaises(pop) == Len(pop) < tournament_size

\* select_parents: the indices of parent1 and parent2
select_parents(pop, x) ==
    <<tournament(pop, x), tournament(pop, RngAdv(x, tournament_size))>>

-----------------------------------------------------------------------------
(* crossover and mutate *)

\* Faulty variant of crossover: the gene loop stops before the last gene.
crossoverDropLast(parent1, parent2, x, gen) ==
    Organism(<<"gen", gen, "offspring">>,
             [j \in 1..(Len(parent1.genes) - 1) |->
                 LET gene == IF RandomBelow(RngAdv(x, j - 1), 500)
                             THEN parent1.genes[j] ELSE parent2.genes[j]
                 IN  Gene(gene.name, gene.value, gene.min_value, gene.max_value,
                          gene.mutation_rate)],
             gen)

\* Faulty variant of crossover: the chosen parent supplies the gene's metadata
\* and the value is the mean of both parents' values.
crossoverBlend(parent1, parent2, x, gen) ==
    Organism(<<"gen", gen, "offspring">>,
             [j \in 1..Len(parent1.genes) |->
                 LET gene == IF RandomBelow(RngAdv(x, j - 1), 500)
                             THEN parent1.genes[j] ELSE parent2.genes[j]
                 IN  Gene(gene.name,
                          (parent1.genes[j].value + parent2.genes[j].value) \div 2,
                          gene.min_value, gene.max_value, gene.mutation_rate)],
             gen)

\* Faulty variant of crossover: parent2's genes are read one position off.
crossoverMisaligned(parent1, parent2, x, gen) ==
    Organism(<<"gen", gen, "offspring">>,
             [j \in 1..Len(parent1.genes) |->
                 LET gene == IF RandomBelow(RngAdv(x, j - 1), 500)
                             THEN parent1.genes[j]
                             ELSE parent2.genes[(j % Len(parent2.genes)) + 1]
                 IN  Gene(gene.name, gene.value, gene.min_value, gene.max_value,
                          gene.mutation_rate)],
             gen)

\* uniform crossover: gene j is a copy of parent1's when random.random() < 0.5
crossover(parent1, parent2, x, gen) ==
    Organism(<<"gen", gen, "offspring">>,
             [j \in 1..Len(parent1.genes) |->
                 LET gene == IF RandomBelow(RngAdv(x, j - 1), 500)
                             THEN parent1.genes[j] ELSE parent2.genes[j]
                 IN  Gene(gene.name, gene.value, gene.min_value, gene.max_value,
                          gene.mutation_rate)],
             gen)

\* Faulty variant of crossover_shares: the chosen parent's gene object itself
\* is appended to the offspring's genes.
crossoverSharesChosen(parent1, parent2, x) ==
    {<<IF RandomBelow(RngAdv(x, j - 1), 500) THEN 1 ELSE 2, j>> :
        j \in 1..Len(parent1.genes)}

\* The gene objects the offspring of crossover shares with its parents, as
\* pairs <<t, j>>: the offspring's gene j is parent t's gene j itself.
\* crossover appends a newly constructed Gene for every position, so the
\* offspring shares none.
crossover_shares(parent1, parent2, x) == {}

\* mutate assigns gene.value in place: pop after the genes its members share
\* with the mutated offspring have taken the offspring's values
WriteThrough(pop, parents, shared, offspring) ==
    [k \in 1..Len(pop) |->
        [pop[k] EXCEPT !.genes =
            [j \in 1..Len(pop[k].genes) |->
                IF \E t \in {1, 2} : <<t, j>> \in shared /\ parents[t] = k
                THEN offspring.genes[j] ELSE pop[k].genes[j]]]]

\* Faulty variant of MutateGene: the perturbed value is stored without the clamp.
MutateGeneNoClamp(gene, mutation) ==
    [gene EXCEPT !.value = (gene.value * (1000 + mutation)) \div 1000]

\* gene.value *= (1 + mutation); gene.value = max(min_value, min(max_value, gene.value))
MutateGene(gene, mutation) ==
    [gene EXCEPT !.value = Clamp(gene.min_value, gene.max_value,
                                 (gene.value * (1000 + mutation)) \div 1000)]

\* the loop of mutate from gene j on: x and nx are the states of the two
\* generators; the result is the genes and numpy's generator state
RECURSIVE MutateFrom(_, _, _, _, _)
MutateFrom(genes, j, x, nx, rate) ==
    IF j > Len(genes) THEN [genes |-> genes, np_rng |-> nx]
    ELSE IF RandomBelow(x, rate)
         THEN MutateFrom([genes EXCEPT ![j] = MutateGene(genes[j], Normal(nx))],
                         j + 1, RngNext(x), NpNext(nx), rate)
         ELSE MutateFrom(genes, j + 1, RngNext(x), nx, rate)

mutate(organism, x, nx, rate) ==
    LET r == MutateFrom(organism.genes, 1, x, nx, rate)
    IN  [organism |-> [organism EXCEPT !.genes = r.genes], np_rng |-> r.np_rng]

-----------------------------------------------------------------------------
(* get_best_strategy *)

\* Faulty variant of get_best_strategy: min instead of max.
get_worst_strategy(pop) ==
    LET w == CHOOSE k \in 1..Len(pop) :
                 \A m \in 1..Len(pop) :
                     \/ pop[k].fitness < pop[m].fitness
                     \/ (pop[k].fitness = pop[m].fitness /\ k <= m)
        b == pop[w]
    IN  [values |-> [j \in 1..Len(b.genes) |-> <<b.genes[j].name, b.genes[j].value>>],
         fitness |-> b.fitness,
         generation |-> b.generation]

\* best = max(self.population, key=lambda x: x.fitness); the dict holds the
\* gene values by name, best.fitness and best.generation
get_best_strategy(pop) ==
    LET b == pop[FirstMax(pop, [k \in 1..Len(pop) |-> k])]
    IN  [values |-> [j \in 1..Len(b.genes) |-> <<b.genes[j].name, b.genes[j].value>>],
         fitness |-> b.fitness,
         generation |-> b.generation]

\* the TradingStrategy row save_evolved_strategy builds from the engine's
\* population pop, generation gen, population_size size and mutation_rate rate
save_evolved_strategy(pop, gen, size, rate) ==
    LET best_strategy == get_best_strategy(pop)
    IN  [name |-> <<"evolved_gen", gen>>,
         version |-> gen,
         parameters |-> best_strategy,
         performance_score |-> best_strategy.fitness,
         backtest_results |-> [generation |-> gen,
                               population_size |-> size,
                               mutation_rate |-> rate]]

-----------------------------------------------------------------------------
(* evolve_generation, statement by statement *)

\* One iteration of the caller's loop up to the call: market_data takes three
\* draws (random.uniform, random.choice, random.uniform); evolve_generation
\* is entered.
BeginEvolve ==
    /\ pc = "idle"
    /\ calls < MaxCalls
    /\ calls' = calls + 1
    /\ rng' = RngAdv(rng, 3)
    /\ pc' = "evaluating"
    /\ i' = 1
    /\ entry' = [population |-> population, generation |-> generation]
    /\ error' = NoError
    /\ new_population' = <<>>
    /\ UNCHANGED <<population_size, mutation_rate, population, generation,
                   np_rng, best, sel, inits, db, caller, supervision>>

\* for organism in self.population: await self.evaluate_fitness(organism, market_data)
Evaluate ==
    /\ pc = "evaluating"
    /\ i <= Len(population)
    /\ population' = [population EXCEPT ![i].fitness = evaluate_fitness(population[i], rng)]
    /\ rng' = RngNext(rng)
    /\ i' = i + 1
    /\ UNCHANGED <<population_size, mutation_rate, generation, np_rng, pc,
                   new_population, error, best, entry, sel, inits, calls, db, caller, supervision>>

\* Faulty variant of Rank: the sort starts when the evaluation loop has
\* reached the last member, before that member is evaluated.
RankEarly ==
    /\ pc = "evaluating"
    /\ i >= Len(population)
    /\ population' = SortDesc(population)
    /\ new_population' = Elite(population', population_size)
    /\ pc' = "replacing"
    /\ UNCHANGED <<population_size, mutation_rate, generation, rng, np_rng, i,
                   error, best, entry, sel, inits, calls, db, caller, supervision>>

\* the sort and the elite slice
Rank ==
    /\ pc = "evaluating"
    /\ i > Len(population)
    /\ population' = SortDesc(population)
    /\ new_population' = Elite(population', population_size)
    /\ pc' = "replacing"
    /\ UNCHANGED <<population_size, mutation_rate, generation, rng, np_rng, i,
                   error, best, entry, sel, inits, calls, db, caller, supervision>>

\* Faulty variant of SelectionPool: the offspring created so far in this
\* call are sampled too (new_population aliased to self.population).
SelectionPoolWithNew ==
    population \o SubSeq(new_population,
                         Len(Elite(population, population_size)) + 1,
                         Len(new_population))

\* the list select_parents samples: self.population, which is the ranked
\* previous population until the call commits
SelectionPool == population

\* one iteration of "while len(new_population) < self.population_size"
Offspring ==
    /\ pc = "replacing"
    /\ FillMore(new_population, population_size)
    /\ ~SampleRaises(population)
    /\ LET parents == select_parents(SelectionPool, rng)
           child == crossover(SelectionPool[parents[1]], SelectionPool[parents[2]],
                              RngAdv(rng, 2 * tournament_size), generation)
           r == mutate(child, RngAdv(rng, 2 * tournament_size + NumGenes),
                       np_rng, mutation_rate)
           shared == crossover_shares(SelectionPool[parents[1]],
                                      SelectionPool[parents[2]],
                                      RngAdv(rng, 2 * tournament_size))
           elites == Len(Elite(population, population_size))
       IN  /\ population' = WriteThrough(population, parents, shared, r.organism)
           \* the elites of new_population are the objects of the slice
           \* self.population[:elite_size]
           /\ new_population' =
                  Append([k \in 1..Len(new_population) |->
                             IF k <= elites
                             THEN Elite(population', population_size)[k]
                             ELSE new_population[k]],
                         r.organism)
           /\ np_rng' = r.np_rng
           /\ sel' = [candidates |-> <<Candidates(SelectionPool, rng),
                                       Candidates(SelectionPool,
                                                  RngAdv(rng, tournament_size))>>,
                      parents |-> parents,
                      child |-> child]
    /\ rng' = RngAdv(rng, 2 * tournament_size + 2 * NumGenes)
    /\ UNCHANGED <<population_size, mutation_rate, generation, pc, i,
                   error, best, entry, inits, calls, db, caller, supervision>>

\* the iteration in which random.sample raises: the ValueError leaves
\* evolve_generation
OffspringRaises ==
    /\ pc = "replacing"
    /\ FillMore(new_population, population_size)
    /\ SampleRaises(population)
    /\ error' = SampleError
    /\ pc' = "idle"
    /\ new_population' = <<>>
    /\ UNCHANGED <<population_size, mutation_rate, population, generation, rng,
                   np_rng, i, best, entry, sel, inits, calls, db, caller, supervision>>

\* self.population = new_population; self.generation += 1; the log line reads
\* self.population[0] and raises IndexError on an empty population
Commit ==
    /\ pc = "replacing"
    /\ ~FillMore(new_population, population_size)
    /\ population' = new_population
    /\ generation' = generation + 1
    /\ error' = IF Len(new_population) = 0 THEN IndexError ELSE NoError
    /\ pc' = "idle"
    /\ new_population' = <<>>
    /\ sel' = NoSelection
    /\ UNCHANGED <<population_size, mutation_rate, rng, np_rng, i, best, entry, inits, calls, db, caller, supervision>>

\* s in reverse order
Reverse(s) == [k \in 1..Len(s) |-> s[Len(s) + 1 - k]]

\* Faulty variant of GetBestStrategy: the best member is found by sorting
\* self.population in place, in ascending order.
GetBestStrategySorting ==
    /\ pc = "idle"
    /\ Len(population) > 0
    /\ best' = get_best_strategy(population)
    /\ population' = Reverse(SortDesc(population))
    /\ error' = NoError
    /\ UNCHANGED <<population_size, mutation_rate, generation, rng,
                   np_rng, pc, i, new_population, entry, sel, inits, calls, db, caller, supervision>>

\* get_best_strategy called between two steps
GetBestStrategy ==
    /\ pc = "idle"
    /\ Len(population) > 0
    /\ best' = get_best_strategy(population)
    /\ error' = NoError
    /\ UNCHANGED <<population_size, mutation_rate, population, generation, rng,
                   np_rng, pc, i, new_population, entry, sel, inits, calls, db, caller, supervision>>

\* max() of an empty population raises ValueError
GetBestStrategyRaises ==
    /\ pc = "idle"
    /\ Len(population) = 0
    /\ error' = MaxError
    /\ UNCHANGED <<population_size, mutation_rate, population, generation, rng,
                   np_rng, pc, i, new_population, best, entry, sel, inits, calls, db, caller, supervision>>

\* save_evolved_strategy called between two steps: db.add(strategy); db.commit()
SaveEvolvedStrategy ==
    /\ pc = "idle"
    /\ Len(population) > 0
    /\ Len(db) < MaxSaves
    /\ db' = Append(db, save_evolved_strategy(population, generation,
                                              population_size, mutation_rate))
    /\ error' = NoError
    /\ UNCHANGED <<population_size, mutation_rate, population, generation, rng,
                   np_rng, pc, i, new_population, best, entry, sel, inits, calls, caller, supervision>>

\* on an empty population the max() inside get_best_strategy raises ValueError
\* before a row is built
SaveEvolvedStrategyRaises ==
    /\ pc = "idle"
    /\ Len(population) = 0
    /\ error' = MaxError
    /\ UNCHANGED <<population_size, mutation_rate, population, generation, rng,
                   np_rng, pc, i, new_population, best, entry, sel, inits, calls, db, caller, supervision>>

Next ==
    \/ InitializePopulation
    \/ BeginEvolve
    \/ Evaluate
    \/ Rank
    \/ Offspring
    \/ OffspringRaises
    \/ Commit
    \/ GetBestStrategy
    \/ GetBestStrategyRaises

Spec == Init /\ [][Next]_vars

\* The engine driven by a caller that persists instead of taking snapshots:
\* one initialize_population, then evolve_generation and
\* save_evolved_strategy calls in any order.
NextSave ==
    \/ (pc = "new" /\ InitializePopulation)
    \/ BeginEvolve
    \/ Evaluate
    \/ Rank
    \/ Offspring
    \/ OffspringRaises
    \/ Commit
    \/ SaveEvolvedStrategy
    \/ SaveEvolvedStrategyRaises

SaveSpec == Init /\ [][NextSave]_vars

-----------------------------------------------------------------------------
(* run_evolution_engine as a task of the orchestrator's event loop *)

\* engine = EvolutionEngine(population_size=30)
RunPopulationSize == 30

\* if engine.generation % 10 == 0
SaveEvery == 10

RunInit ==
    /\ population_size = RunPopulationSize
    /\ mutation_rate = GeneDefaultMutationRate
    /\ population = <<>>
    /\ generation = 0
    /\ rng \in 0..(RngMod - 1)
    /\ np_rng \in 1..Len(NormalTable)
    /\ pc = "new"
    /\ i = 0
    /\ new_population = <<>>
    /\ error = NoError
    /\ best = NoRecord
    /\ entry = [population |-> <<>>, generation |-> 0]
    /\ sel = NoSelection
    /\ db = <<>>
    /\ loop = "start"
    /\ switches = 0
    /\ inits = 0
    /\ calls = 0
    /\ NoOrchestrator

\* engine.initialize_population(base_strategy)
RunStart ==
    /\ loop = "start"
    /\ population' = initialize_population(DefaultBase, population_size, rng, generation)
    /\ rng' = RngAdv(rng, Max(population_size, 0) * NumGenes)
    /\ pc' = "idle"
    /\ inits' = inits + 1
    /\ loop' = "iterate"
    /\ UNCHANGED <<population_size, mutation_rate, generation, np_rng, i,
                   new_population, error, best, entry, sel, calls, db, switches, supervision>>

\* the top of the while loop: market_data takes three draws and
\* evolve_generation is entered
RunIterate ==
    /\ loop = "iterate"
    /\ generation < MaxRunGen
    /\ calls' = calls + 1
    /\ rng' = RngAdv(rng, 3)
    /\ pc' = "evaluating"
    /\ i' = 1
    /\ entry' = [population |-> population, generation |-> generation]
    /\ error' = NoError
    /\ new_population' = <<>>
    /\ loop' = "evolving"
    /\ UNCHANGED <<population_size, mutation_rate, population, generation,
                   np_rng, best, sel, inits, db, switches, supervision>>

\* Faulty variant of RunCheckpoint: the row is saved after every generation.
RunCheckpointAlways ==
    /\ loop = "evolving"
    /\ pc = "idle"
    /\ error = NoError
    /\ db' = Append(db, save_evolved_strategy(population, generation,
                                              population_size, mutation_rate))
    /\ loop' = "logging"
    /\ UNCHANGED <<population_size, mutation_rate, population, generation, rng,
                   np_rng, pc, i, new_population, error, best, entry, sel,
                   inits, calls, switches, supervision>>

\* evolve_generation has returned; if engine.generation % 10 == 0 the row
\* is added and committed
RunCheckpoint ==
    /\ loop = "evolving"
    /\ pc = "idle"
    /\ error = NoError
    /\ db' = IF generation % SaveEvery = 0
             THEN Append(db, save_evolved_strategy(population, generation,
                                                   population_size, mutation_rate))
             ELSE db
    /\ loop' = "logging"
    /\ UNCHANGED <<population_size, mutation_rate, population, generation, rng,
                   np_rng, pc, i, new_population, error, best, entry, sel,
                   inits, calls, switches, supervision>>

\* the database raises in next(get_db()), db.add or db.commit: no row is
\* committed and the exception reaches the except clause of the loop, which
\* logs it and awaits asyncio.sleep(30)
RunCheckpointRaises ==
    /\ loop = "evolving"
    /\ pc = "idle"
    /\ error = NoError
    /\ generation % SaveEvery = 0
    /\ error' = DatabaseError
    /\ loop' = "recovering"
    /\ UNCHANGED <<population_size, mutation_rate, population, generation, rng,
                   np_rng, pc, i, new_population, best, entry, sel,
                   inits, calls, db, switches, supervision>>

\* best = engine.get_best_strategy(); the log line; await asyncio.sleep(10)
RunLog ==
    /\ loop = "logging"
    /\ best' = get_best_strategy(population)
    /\ loop' = "sleeping"
    /\ UNCHANGED <<population_size, mutation_rate, population, generation, rng,
                   np_rng, pc, i, new_population, error, entry, sel,
                   inits, calls, db, switches, supervision>>

\* Faulty variant of Suspended: evaluate_fitness awaits something that
\* suspends, so the task is also suspended inside the evaluation loop.
SuspendedInEvaluation == loop \in {"sleeping", "recovering"} \/ pc = "evaluating"

\* the task is suspended at one of its two asyncio.sleep calls; every other
\* await of the task (evolve_generation, evaluate_fitness,
\* save_evolved_strategy) is of a coroutine that never suspends
Suspended == loop \in {"sleeping", "recovering"}

\* the sleep is over and the event loop resumes the task
RunWake ==
    /\ Suspended
    /\ loop' = "iterate"
    /\ UNCHANGED <<population_size, mutation_rate, population, generation, rng,
                   np_rng, pc, i, new_population, error, best, entry, sel,
                   inits, calls, db, switches, supervision>>

\* the event loop runs another task of the orchestrator; the engine is a
\* local of run_evolution_engine, which no other task can reach
OtherTask ==
    /\ Suspended
    /\ switches < MaxSwitches
    /\ switches' = switches + 1
    /\ UNCHANGED <<population_size, mutation_rate, population, generation, rng,
                   np_rng, pc, i, new_population, error, best, entry, sel,
                   inits, calls, db, loop, supervision>>

NextRun ==
    \/ RunStart
    \/ RunIterate
    \/ Evaluate
    \/ Rank
    \/ Offspring
    \/ Commit
    \/ RunCheckpoint
    \/ RunCheckpointRaises
    \/ RunLog
    \/ RunWake
    \/ OtherTask

RunSpec == RunInit /\ [][NextRun]_vars

\* a statement of a running evolve_generation call: the coroutine awaits
\* nothing but evaluate_fitness, which never suspends, so a call that has
\* started keeps running
EvolveStep ==
    \/ Evaluate
    \/ Rank
    \/ Offspring
    \/ OffspringRaises
    \/ Commit

\* The engine driven by a caller that only evolves: one
\* initialize_population, then evolve_generation calls; a started call is
\* run to its end.
NextStep ==
    \/ (pc = "new" /\ InitializePopulation)
    \/ BeginEvolve
    \/ EvolveStep

\* an evolve_generation call is running: exactly then EvolveStep is enabled
\* (Evaluate or Rank while evaluating; Offspring, OffspringRaises or Commit
\* while replacing), and every EvolveStep changes i, pc or new_population
Running == pc \in {"evaluating", "replacing"}

\* weak fairness of EvolveStep, written out with Running for
\* ENABLED <<EvolveStep>>_vars
EvolveFairness == []<>(~Running) \/ []<><<EvolveStep>>_vars

StepSpec == Init /\ [][NextStep]_vars /\ EvolveFairness

-----------------------------------------------------------------------------
(* Properties *)

\* every organism the engine holds: the population and the new population
\* under construction
Organisms == {population[k] : k \in 1..Len(population)}
             \cup {new_population[k] : k \in 1..Len(new_population)}

\* the best fitness in a population (0 for an empty one)
BestFitness(pop) ==
    IF Len(pop) = 0 THEN 0
    ELSE CHOOSE f \in {pop[k].fitness : k \in 1..Len(pop)} :
             \A k \in 1..Len(pop) : pop[k].fitness <= f

\* an evolve_generation call returns without an exception in this step
Completes == pc = "replacing" /\ pc' = "idle" /\ error' = NoError

\* an evolve_generation call ends in this step with an exception
Raises == pc = "replacing" /\ pc' = "idle" /\ error' # NoError

\* C1 (elitism monotonicity): whenever an evolve_generation call completes,
\* the best fitness in the population it leaves is at least the best fitness
\* in the population it was called on.
C1_ElitismMonotone ==
    [][Completes => BestFitness(population') >= BestFitness(entry.population)]_vars

\* C2 (bounds invariant): in every state, every gene of every organism of the
\* population and of the new population under construction lies within its
\* bounds.
C2_BoundsInvariant ==
    \A o \in Organisms : \A j \in 1..Len(o.genes) :
        /\ o.genes[j].min_value <= o.genes[j].value
        /\ o.genes[j].value <= o.genes[j].max_value

\* a mutated offspring has a gene at its lower bound that no member of the
\* population it was bred from has there: the mutation was clamped
C2_Witness ==
    /\ pc = "replacing"
    /\ \E k \in 1..Len(new_population) : \E j \in 1..NumGenes :
          /\ new_population[k].genes[j].value = new_population[k].genes[j].min_value
          /\ \A m \in 1..Len(population) :
                population[m].genes[j].value > population[m].genes[j].min_value

C5_NoPartialGeneration ==
    [][/\ Raises => /\ population' = entry.population
                    /\ generation' = entry.generation
       /\ Completes => generation' = entry.generation + 1]_vars

\* C7 (schema stability): in every state, every organism carries exactly the
\* genes of the seed schema, names and bounds, in the schema's order.
C7_SchemaStability ==
    \A o \in Organisms :
        /\ Len(o.genes) = Len(Schema)
        /\ \A j \in 1..Len(Schema) :
              /\ o.genes[j].name = Schema[j].name
              /\ o.genes[j].min_value = Schema[j].min
              /\ o.genes[j].max_value = Schema[j].max

\* after a completed generation the population holds an offspring, made by
\* crossover and mutation, whose gene values equal those of no member of the
\* population it was bred from
C7_Witness ==
    /\ pc = "idle"
    /\ generation >= 1
    /\ \E k \in 1..Len(population) :
          /\ population[k].strategy_id[3] = "offspring"
          /\ \A m \in 1..Len(entry.population) :
                \E j \in 1..NumGenes :
                    population[k].genes[j].value # entry.population[m].genes[j].value

\* C8 (configuration errors fail fast): no generational step executes with a
\* non-positive population size or a mutation rate outside [0, 1].
C8_ConfigFailFast ==
    pc \in {"evaluating", "replacing"} =>
        /\ population_size > 0
        /\ mutation_rate >= 0
        /\ mutation_rate <= 1000

\* C9 (degenerate tournament): tournament sampling never fails at run time,
\* an engine whose population is smaller than the tournament never reaches it.
C9_NoRuntimeSampleError ==
    error # SampleError

\* C10 (snapshot is a pure read): a get_best_strategy call leaves the
\* population and the generation index unchanged, and no other step changes
\* a record it returned.
C10_SnapshotPure ==
    /\ [][GetBestStrategy => (population' = population /\ generation' = generation)]_vars
    /\ [][best' # best => GetBestStrategy]_vars

\* a record taken before the first evaluation (fitness 0.0, generation 0) is
\* still held after a completed generation whose best member scores above 0
C10_Witness ==
    /\ pc = "idle"
    /\ generation >= 1
    /\ best # NoRecord
    /\ best.fitness = 0
    /\ best.generation = 0
    /\ BestFitness(population) > 0


\* C11 (generation index): the generation index changes only in the step in
\* which an evolve_generation call completes, and then by exactly 1; a call
\* that ends with an exception, and every other step, leaves it unchanged.
C11_GenerationIndex ==
    [][generation' # generation =>
           (Completes /\ generation' = generation + 1)]_vars

\* an initialize_population call happens in this step
Initializes == inits' = inits + 1

\* C12 (initialization postcondition): every initialize_population call, on
\* an engine that already ran generations too, leaves the generation index 0
\* and every member with the unevaluated fitness and generation 0.
C12_InitPostcondition ==
    [][Initializes =>
           /\ generation' = 0
           /\ \A k \in 1..Len(population') :
                  /\ population'[k].fitness = 0
                  /\ population'[k].generation = 0]_vars

\* C13 (unique ids): in every state, no two members of the population carry
\* the same strategy_id.
C13_UniqueIds ==
    \A k, m \in 1..Len(population) :
        k # m => population[k].strategy_id # population[m].strategy_id

\* an offspring is appended to the new population in this step
Appends == pc = "replacing" /\ Len(new_population') = Len(new_population) + 1

\* C14 (offspring generation tag): an offspring created in the step that
\* takes the generation index from g to g+1 is tagged with generation g+1.
C14_OffspringNextGeneration ==
    [][Appends =>
           new_population'[Len(new_population')].generation = generation + 1]_vars


\* the two tournaments of the last select_parents call
Tournaments == IF sel = NoSelection THEN {} ELSE {1, 2}

\* the fitness of candidate number k of tournament t
CandidateFitness(t, k) == population[sel.candidates[t][k]].fitness

\* C15 (tournament selection): each tournament samples tournament_size
\* members and returns the sampled member of highest fitness; among sampled
\* members that tie for the highest fitness it returns the one that comes
\* first in the sample.
C15_TournamentWinner ==
    \A t \in Tournaments :
        /\ Len(sel.candidates[t]) = tournament_size
        /\ \E w \in 1..tournament_size :
               /\ sel.parents[t] = sel.candidates[t][w]
               /\ \A k \in 1..tournament_size :
                      CandidateFitness(t, k) <= CandidateFitness(t, w)
               /\ \A k \in 1..(w - 1) :
                      CandidateFitness(t, k) < CandidateFitness(t, w)

\* a tournament in which two sampled members tie for the highest fitness and
\* the first of them in the sample is the winner
C15_Witness ==
    \E t \in Tournaments : \E w, k \in 1..tournament_size :
        /\ w < k
        /\ sel.parents[t] = sel.candidates[t][w]
        /\ CandidateFitness(t, k) = CandidateFitness(t, w)
        /\ \A m \in 1..tournament_size :
               CandidateFitness(t, m) <= CandidateFitness(t, w)


\* parent number t of the last crossover
Parent(t) == population[sel.parents[t]]

\* C16 (crossover copies verbatim): the offspring crossover returns has as
\* many genes as its parents, and each gene j has the name, value, bounds and
\* mutation rate of gene j of one and the same parent.
C16_CrossoverCopies ==
    sel # NoSelection =>
        /\ Len(sel.child.genes) = Len(Parent(1).genes)
        /\ \A j \in 1..Len(sel.child.genes) :
               \E t \in {1, 2} :
                   /\ sel.child.genes[j].name = Parent(t).genes[j].name
                   /\ sel.child.genes[j].value = Parent(t).genes[j].value
                   /\ sel.child.genes[j].min_value = Parent(t).genes[j].min_value
                   /\ sel.child.genes[j].max_value = Parent(t).genes[j].max_value
                   /\ sel.child.genes[j].mutation_rate = Parent(t).genes[j].mutation_rate

\* an offspring with one gene copied from parent1 and another from parent2,
\* at positions where the two parents' values differ
C16_Witness ==
    /\ sel # NoSelection
    /\ \E j, k \in 1..Len(sel.child.genes) :
           /\ Parent(1).genes[j].value # Parent(2).genes[j].value
           /\ Parent(1).genes[k].value # Parent(2).genes[k].value
           /\ sel.child.genes[j] = Parent(1).genes[j]
           /\ sel.child.genes[k] = Parent(2).genes[k]


\* the evaluation loop of this evolve_generation call has assigned a fitness
\* to every member of the population
AllEvaluated ==
    /\ i = Len(population) + 1
    /\ \A k \in 1..Len(population) : population[k].fitness > 0

\* C17 (evaluation barrier): the step that ranks the population, every step
\* that selects parents or extends the new population, and the step that
\* replaces the population and increments the generation index are taken
\* only when every member has had its fitness assigned in this call.
C17_EvaluationBarrier ==
    [][(\/ (pc = "evaluating" /\ pc' # "evaluating")
        \/ sel' # sel
        \/ new_population' # new_population
        \/ generation' # generation) => AllEvaluated]_vars

\* parents are selected from a ranked 10-member population after its ten
\* evaluations
C17_Witness ==
    /\ pc = "replacing"
    /\ Len(population) = 2 * tournament_size
    /\ AllEvaluated
    /\ sel # NoSelection
    /\ Len(new_population) > elite_size(population_size)


\* pop is in ranked order: fitness descending
Ranked(pop) ==
    \A k, m \in 1..Len(pop) : k < m => pop[k].fitness >= pop[m].fitness

\* organism o was created by crossover in the step that started at
\* generation index g and has not been evaluated
NewOffspring(o, g) ==
    /\ o.strategy_id = <<"gen", g, "offspring">>
    /\ o.fitness = 0

Evaluates == pc = "evaluating" /\ i' = i + 1

\* member k of the population of an engine that completed a generation is
\* a retained elite: it stands in the elite slice and carries the fitness
\* the previous evolve_generation call assigned
CarriedOverElite(k) ==
    /\ generation >= 1
    /\ k <= population_size \div 10
    /\ population[k].fitness > 0

\* C20 (evaluation of unevaluated members only): the evaluation loop leaves
\* a member that was carried over as an elite as it is; the elite keeps the
\* fitness it was assigned.
C20_EliteKeepsFitness ==
    [][(Evaluates /\ CarriedOverElite(i)) =>
           population'[i].fitness = population[i].fitness]_vars


\* save_evolved_strategy adds a row in this step
Saves == Len(db') = Len(db) + 1

\* the row added in this step
SavedRow == db'[Len(db')]

\* the row describes member o of the population: its gene values by name
\* and its fitness
DescribesMember(row, o) ==
    /\ row.parameters.values =
           [j \in 1..Len(o.genes) |-> <<o.genes[j].name, o.genes[j].value>>]
    /\ row.parameters.fitness = o.fitness
    /\ row.performance_score = o.fitness

\* the row carries the engine's population size and mutation rate
CarriesMetadata(row) ==
    /\ row.backtest_results.population_size = population_size
    /\ row.backtest_results.mutation_rate = mutation_rate

Ranks == pc = "evaluating" /\ pc' = "replacing"

\* the members of pop whose fitness is f, in the order they have in pop
WithFitness(pop, f) ==
    LET Has(o) == o.fitness = f
    IN  SelectSeq(pop, Has)

\* C21 (ranking): the sort leaves the population in descending order of
\* fitness, and for every fitness value the members of that fitness are the
\* same before and after the sort and stand in the same relative order; so
\* the ranked population is a permutation of the evaluated one and the sort
\* is stable.
C21_StableRanking ==
    [][Ranks =>
           /\ Ranked(population')
           /\ Len(population') = Len(population)
           /\ \A k \in 1..Len(population) :
                  WithFitness(population', population[k].fitness)
                      = WithFitness(population, population[k].fitness)]_vars

\* a first generation of numbered members after the sort: the sort moved a
\* member forward, and two different members of equal fitness stand in the
\* order of their numbers
C21_Witness ==
    /\ pc = "replacing"
    /\ generation = 0
    /\ Ranked(population)
    /\ \E k, m \in 1..Len(population) :
           /\ k < m
           /\ population[k].strategy_id[4] > population[m].strategy_id[4]
    /\ \E k, m \in 1..Len(population) :
           /\ k < m
           /\ population[k].fitness = population[m].fitness
           /\ population[k].genes # population[m].genes
           /\ population[k].strategy_id[4] < population[m].strategy_id[4]


\* the offspring appended in this step, after mutate
Appended == new_population'[Len(new_population')]

\* the state of the `random` generator at mutate's random.random() for gene j
\* of the offspring created in this step
MutateDraw(j) == RngAdv(rng, 2 * tournament_size + NumGenes + j - 1)

\* C22 (per-gene mutation rate): for every gene of an offspring, with u the
\* draw mutate takes for it, the gene is perturbed and clamped when u is
\* below the gene's own mutation_rate, and keeps the value crossover gave it
\* otherwise.
C22_PerGeneRate ==
    [][Appends =>
           \A j \in 1..NumGenes :
               LET gene == sel'.child.genes[j]
               IN  IF RandomBelow(MutateDraw(j), gene.mutation_rate)
                   THEN \E n \in 1..Len(NormalTable) :
                            Appended.genes[j] = MutateGene(gene, NormalTable[n])
                   ELSE Appended.genes[j] = gene]_vars


\* the fill loop runs one iteration in this step
FillIteration == pc = "replacing" /\ pc' = "replacing"

\* C23 (termination): a call on an initialized population of at least
\* tournament_size members returns without an exception; the fill loop
\* starts from the elite, each of its iterations adds exactly one offspring,
\* and it ends with population_size members, that is after population_size
\* minus the elite count iterations.
C23_Terminates ==
    /\ (pc = "evaluating" /\ population_size >= tournament_size)
           ~> (pc = "idle" /\ error = NoError)
    /\ [][/\ Ranks => Len(new_population') = population_size \div 10
          /\ FillIteration => Len(new_population') = Len(new_population) + 1
          /\ Completes => Len(new_population) = population_size]_vars

\* a call on a 10-member population has returned: its fill loop added nine
\* offspring to the one elite
C23_Witness ==
    /\ pc = "idle"
    /\ error = NoError
    /\ calls >= 1
    /\ generation >= 1
    /\ population_size = 2 * tournament_size
    /\ Len(population) = population_size
    /\ \A k \in 2..Len(population) : NewOffspring(population[k], generation - 1)


\* both tournaments of the last select_parents call returned the same member
SameParents == sel # NoSelection /\ sel.parents[1] = sel.parents[2]

\* C24 (coinciding parents): when both tournaments return the same member p,
\* crossover returns an offspring whose genes equal p's genes at every
\* position: name, value, bounds and mutation rate.
C24_SelfCrossover ==
    SameParents =>
        /\ Len(sel.child.genes) = Len(Parent(1).genes)
        /\ \A j \in 1..Len(Parent(1).genes) :
               /\ sel.child.genes[j].name = Parent(1).genes[j].name
               /\ sel.child.genes[j].value = Parent(1).genes[j].value
               /\ sel.child.genes[j].min_value = Parent(1).genes[j].min_value
               /\ sel.child.genes[j].max_value = Parent(1).genes[j].max_value
               /\ sel.child.genes[j].mutation_rate = Parent(1).genes[j].mutation_rate

\* an offspring of a member crossed with itself, in a population that holds
\* members with other genes
C24_Witness ==
    /\ SameParents
    /\ sel.child.strategy_id = <<"gen", generation, "offspring">>
    /\ \E k \in 1..Len(population) : population[k].genes # Parent(1).genes


\* C26 (mutation frame): the step that creates an offspring by crossover and
\* mutates it leaves every member of the population, both parents and the
\* elites among them, and every member already in the new population exactly
\* as it was.
C26_MutationFrame ==
    [][Appends =>
           /\ population' = population
           /\ \A k \in 1..Len(new_population) :
                  new_population'[k] = new_population[k]]_vars

\* an offspring whose gene mutate has changed, next to the parent it was
\* copied from, which still holds the value crossover read
C26_Witness ==
    /\ pc = "replacing"
    /\ sel # NoSelection
    /\ Len(new_population) > 0
    /\ \E j \in 1..NumGenes : \E t \in {1, 2} :
           /\ new_population[Len(new_population)].genes[j].value
                  # sel.child.genes[j].value
           /\ Parent(t).genes[j].value = sel.child.genes[j].value


\* C27 (reported best is evaluated): when an evolve_generation call
\* completes, the head of the new population, whose fitness the call logs as
\* the best fitness, and the best member of the new population carry the
\* maximum of the fitness values the evaluator assigned in this call, and
\* the head is not an offspring created in this call with the default
\* fitness.
C27_BestIsEvaluated ==
    [][Completes =>
           /\ population'[1].fitness = BestFitness(population)
           /\ BestFitness(population') = BestFitness(population)
           /\ ~NewOffspring(population'[1], generation)]_vars


\* C28 (parents from the ranked previous population): every candidate of
\* both tournaments is a member of the population, which is in ranked order
\* and whose members all had their fitness assigned in this call; no
\* candidate is an offspring created in this call.
C28_ParentsFromRanked ==
    \A t \in Tournaments : \A k \in 1..Len(sel.candidates[t]) :
        LET c == sel.candidates[t][k]
        IN  /\ c \in 1..Len(population)
            /\ Ranked(population)
            /\ AllEvaluated
            /\ ~NewOffspring(population[c], generation)

\* parents are selected while offspring created earlier in the same call
\* stand in the new population
C28_Witness ==
    /\ sel # NoSelection
    /\ Len(new_population) >= elite_size(population_size) + 2
    /\ \A k \in (elite_size(population_size) + 1)..Len(new_population) :
           NewOffspring(new_population[k], generation)


\* the event loop runs another task in this step
Switches == switches' # switches

\* C25 (single writer): another task runs only while no evolve_generation
\* call is in progress, that is when the population is complete and no new
\* population is under construction, and it leaves the engine as it is; the
\* population is written only by steps of run_evolution_engine.
C25_SingleWriter ==
    [][/\ Switches =>
              /\ pc = "idle"
              /\ new_population = <<>>
              /\ Len(population) = population_size
              /\ <<population, generation, new_population, pc, i>>'
                     = <<population, generation, new_population, pc, i>>
       /\ population' # population => (~Switches /\ loop \in {"start", "evolving"})]_vars

\* another task has run between two generations of a running engine
C25_Witness ==
    /\ switches >= 1
    /\ generation >= 1
    /\ loop = "evolving"
    /\ pc = "replacing"
    /\ Len(new_population) > elite_size(population_size)

\* C29 (checkpoint cadence): a row is saved only in the step that follows
\* the return of an evolve_generation call without an exception, with the
\* generation index that call left, which is divisible by 10 and for which
\* no row was saved before; an iteration that ends in the except clause
\* saves nothing, leaves the generation index as it is, and the loop goes on
\* with its next iteration.
C29_CheckpointCadence ==
    [][/\ Saves =>
              /\ loop = "evolving"
              /\ pc = "idle"
              /\ error = NoError
              /\ generation >= 1
              /\ generation % 10 = 0
              /\ SavedRow.version = generation
              /\ \A k \in 1..Len(db) : db[k].version # generation
       /\ loop' = "recovering" => (db' = db /\ generation' = generation)
       /\ (loop = "recovering" /\ loop' # loop) => loop' = "iterate"]_vars

\* rows were saved for generation 10 and generation 20 and for no other
C29_Witness ==
    /\ Len(db) = 2
    /\ db[1].version = 10
    /\ db[2].version = 20
    /\ generation = 20
    /\ loop = "sleeping"

\* ---------------------------------------------------------------------------
\* Orchestrator (src/orchestrator/coordinator.py): component supervision
\* ---------------------------------------------------------------------------

\* Bound: the number of component tasks that end by themselves in one run.
MaxStops == 2

\* The keys of start_components' dict, in insertion order (the order in which
\* the tasks are created and in which self.tasks is iterated).
ComponentOrder ==
    <<"bot_hunter", "claude_analyzer", "evolution_engine", "health_monitor",
      "signal_processor">>

Components == {ComponentOrder[k] : k \in 1..Len(ComponentOrder)}

\* Every field of the EvolutionEngine and of its caller; the orchestrator's
\* own methods leave them alone.
evolver ==
    <<population_size, mutation_rate, population, generation, rng, np_rng, pc,
      i, new_population, error, best, entry, sel, inits, calls, db, caller>>

\* Orchestrator() followed by initialize(): no task has been created and
\* running is True. No component coroutine has run yet, so no engine exists
\* beyond its constructor's defaults.
OrchInit ==
    /\ population_size = RunPopulationSize
    /\ mutation_rate = GeneDefaultMutationRate
    /\ population = <<>>
    /\ generation = 0
    /\ rng = 0
    /\ np_rng = 1
    /\ pc = "new"
    /\ i = 0
    /\ new_population = <<>>
    /\ error = NoError
    /\ best = NoRecord
    /\ entry = [population |-> <<>>, generation |-> 0]
    /\ sel = NoSelection
    /\ db = <<>>
    /\ loop = "none"
    /\ switches = 0
    /\ inits = 0
    /\ calls = 0
    /\ orchestrator = "initialized"
    /\ running = TRUE
    /\ tasks = <<>>
    /\ owner = <<>>
    /\ done = {}
    /\ monitor = "none"
    /\ stops = 0

\* task.done()
task_done(t) == t \in done

\* start_components: one asyncio.create_task per component, in dict order,
\* each stored under its name. Nothing is awaited in the loop.
StartComponents ==
    /\ orchestrator = "initialized"
    /\ owner' = ComponentOrder
    /\ tasks' = [name \in Components |->
                    CHOOSE k \in 1..Len(ComponentOrder) : ComponentOrder[k] = name]
    /\ monitor' = "check"
    /\ orchestrator' = "started"
    /\ UNCHANGED <<running, done, stops>>
    /\ UNCHANGED evolver

\* A component coroutine ends by itself, by returning or by an exception
\* that escapes its loop (e.g. one raised before its `while` is entered):
\* its task becomes done.
ComponentStops ==
    /\ orchestrator = "started"
    /\ stops < MaxStops
    /\ \E name \in Components \ {"health_monitor"} :
          /\ ~task_done(tasks[name])
          /\ done' = done \cup {tasks[name]}
    /\ stops' = stops + 1
    /\ UNCHANGED <<orchestrator, running, tasks, owner, monitor>>
    /\ UNCHANGED evolver

\* run_health_monitor, top of the loop: `while self.running`, then the
\* component_status dict (lines 63-68); the next statement awaits. When
\* running is false the coroutine returns and its task is done.
HealthCheck ==
    /\ monitor = "check"
    /\ IF running
       THEN /\ monitor' = "report"
            /\ done' = done
       ELSE /\ monitor' = "returned"
            /\ done' = done \cup {tasks["health_monitor"]}
    /\ UNCHANGED <<orchestrator, running, tasks, owner, stops>>
    /\ UNCHANGED evolver

\* lines 71-95 succeed: metrics collected, the SystemMetrics row committed,
\* the status published on Redis. Control reaches the restart loop.
HealthReport ==
    /\ monitor = "report"
    /\ monitor' = "restart"
    /\ UNCHANGED <<orchestrator, running, tasks, owner, done, stops>>
    /\ UNCHANGED evolver

\* get_db, commit or publish raises: control leaves the try block for
\* `except Exception` (lines 120-122), which logs and sleeps 10 seconds.
\* The restart loop of this iteration is skipped.
HealthReportRaises ==
    /\ monitor = "report"
    /\ monitor' = "recovering"
    /\ UNCHANGED <<orchestrator, running, tasks, owner, done, stops>>
    /\ UNCHANGED evolver

\* The names whose current task is done, in the order the restart loop
\* visits them.
Failed(table, finished) ==
    SelectSeq(ComponentOrder, LAMBDA name : table[name] \in finished)

\* The names the restart loop replaces the task of.
Restarted(table, finished) == Failed(table, finished)

\* lines 98-118: for every name whose task is done, create a new task and
\* store it under the name; then sleep 30 seconds. Nothing is awaited
\* inside the loop.
RestartFailed ==
    /\ monitor = "restart"
    /\ LET failed == Restarted(tasks, done)
       IN  /\ owner' = owner \o failed
           /\ tasks' = [name \in DOMAIN tasks |->
                           IF \E k \in 1..Len(failed) : failed[k] = name
                           THEN Len(owner) + (CHOOSE k \in 1..Len(failed) : failed[k] = name)
                           ELSE tasks[name]]
    /\ monitor' = "sleeping"
    /\ UNCHANGED <<orchestrator, running, done, stops>>
    /\ UNCHANGED evolver

\* asyncio.sleep(30) or asyncio.sleep(10) is over: back to the loop test.
HealthWake ==
    /\ monitor \in {"sleeping", "recovering"}
    /\ monitor' = "check"
    /\ UNCHANGED <<orchestrator, running, tasks, owner, done, stops>>
    /\ UNCHANGED evolver

\* shutdown: running becomes False, every task in the table is cancelled,
\* and gather waits until all of them are done. The health monitor is
\* cancelled at the await it is suspended in.
Shutdown ==
    /\ orchestrator = "started"
    /\ running' = FALSE
    /\ done' = done \cup {tasks[name] : name \in DOMAIN tasks}
    /\ monitor' = "cancelled"
    /\ orchestrator' = "shutdown"
    /\ UNCHANGED <<tasks, owner, stops>>
    /\ UNCHANGED evolver

\* The steps of the run_health_monitor coroutine.
HealthStep ==
    HealthCheck \/ HealthReport \/ HealthReportRaises \/ RestartFailed
        \/ HealthWake

NextOrch == StartComponents \/ ComponentStops \/ HealthStep \/ Shutdown

\* The event loop keeps resuming the health monitor as long as it has a
\* step to take; nothing obliges a component to stop, the I/O to succeed
\* or run_orchestrator to shut down.
OrchSpec == OrchInit /\ [][NextOrch]_vars /\ WF_vars(HealthStep)

\* A task that is not done.
Live(t) == t \in 1..Len(owner) /\ ~task_done(t)

\* The health monitor coroutine is running: its task exists and is not done.
MonitorRunning ==
    /\ "health_monitor" \in DOMAIN tasks
    /\ ~task_done(tasks["health_monitor"])

\* Once start_components has run the table holds exactly the five names.
FiveNames ==
    orchestrator # "initialized" =>
        /\ DOMAIN tasks = Components
        /\ Cardinality(DOMAIN tasks) = 5

\* No name has two tasks that are not done, among all the tasks ever created.
OneLiveTask ==
    \A name \in Components :
        Cardinality({t \in 1..Len(owner) : owner[t] = name /\ Live(t)}) <= 1

\* A step that stores a new task under a name finds the name's task done.
ReplacesOnlyDone ==
    \A name \in DOMAIN tasks :
        (name \in DOMAIN tasks' /\ tasks'[name] # tasks[name]) =>
            /\ task_done(tasks[name])
            /\ tasks'[name] > Len(owner)
            /\ owner'[tasks'[name]] = name

\* A stopped task is replaced (or the health monitor stops running).
StoppedIsReplaced ==
    \A name \in Components :
        (MonitorRunning /\ task_done(tasks[name]))
            ~> (~MonitorRunning \/ ~task_done(tasks[name]))

\* The safety half of component supervision: the table's names, the single
\* live task per name, and replacement of done tasks only.
SupervisionSafety ==
    /\ [](FiveNames /\ OneLiveTask)
    /\ [][ReplacesOnlyDone]_vars

\* C30: component supervision. Once start_components has run, the task table
\* holds exactly the five component names, each with at most one not-done
\* task at any time; the health monitor creates a replacement task only for a
\* name whose current task is done; and while the health monitor is running
\* every component task that has stopped is eventually replaced by a new one.
C30_Supervision == SupervisionSafety /\ StoppedIsReplaced

====
